---- MODULE Spec2Model ----
(***************************************************************************)
(* Model of agreements/app/database/parser.py: the Parser class that       *)
(* stores tweets, resolves reply chains to agreements and interprets the   *)
(* create / +sign / +leave / +unsign / link commands.                      *)
(*                                                                         *)
(* The two tinydb tables are functions from doc_id to document.  A text is *)
(* the sequence of its whitespace-separated words (text.split()), joined   *)
(* by single blanks.  Fields the parser stores but never reads (user_id,   *)
(* created) are left out of the tweet documents.                           *)
(***************************************************************************)
EXTENDS Integers, Sequences, FiniteSets, TLC

VARIABLES tweets, threads, last, interrupts

vars == <<tweets, threads, last, interrupts>>

(* ---- bounds ---------------------------------------------------------- *)

\* status ids range over 1..MaxId
MaxId == 3

\* how many times a parse_all run is killed
MaxInterrupts == 1

(* ---- values ---------------------------------------------------------- *)

\* Python's None, as parent_id and as the result of find_root / find_agreement
None == -1

\* headers.get('location') of a response without a Location header: None in a list of urls
NoLocation == "None"

\* the handle that may create agreements
Operator == "lukvmil"

\* the engine's own mention, never a member
EngineMention == "@agreementengine"

\* who posts what: the author and text of the statuses handed to add
Scripts ==
  { [user |-> [name |-> "Luke", screen_name |-> "lukvmil"],
     text |-> <<"@bob", "@agreementengine", "deal", "http://t.co/a">>],
    [user |-> [name |-> "Bob", screen_name |-> "bob"],
     text |-> <<"+sign">>],
    [user |-> [name |-> "Eve", screen_name |-> "eve"],
     text |-> <<"+sign", "http://t.co/b">>],
    [user |-> [name |-> "Bob", screen_name |-> "bob"],
     text |-> <<"+leave">>],
    [user |-> [name |-> "Luke", screen_name |-> "lukvmil"],
     text |-> <<"@eve", "enforced", "by", "@bob", "enforced", "by", "@eve",
                "+unsign", "+sign">>] }

\* the status objects handed to add; the status with the largest id has no
\* replies yet
Statuses ==
  { [id |-> i, user |-> sc.user, full_text |-> sc.text, in_reply_to_status_id |-> p] :
      i \in 1..MaxId, sc \in Scripts, p \in {None} \cup (1..(MaxId - 1)) }

(* ---- text ------------------------------------------------------------ *)

\* word[0] == '@'
IsMention(word) == word \in {"@bob", "@eve", "@agreementengine"}

\* word[1:]
Handle(word) ==
  CASE word = "@bob" -> "bob"
    [] word = "@eve" -> "eve"
    [] word = "@agreementengine" -> "agreementengine"
    [] OTHER -> word

\* marker in text, for the markers +sign, +leave, +unsign
Contains(text, marker) == \E i \in 1..Len(text) : text[i] = marker

\* the url the link pattern matches in a word, "" when it matches none
UrlIn(word) ==
  CASE word = "http://t.co/a" -> "http://t.co/a"
    [] word = "http://t.co/b" -> "http://t.co/b"
    [] OTHER -> ""

\* re.findall of the link pattern: the matched urls, in order
RECURSIVE tco_links(_)
tco_links(text) ==
  IF text = <<>> THEN <<>>
  ELSE IF UrlIn(Head(text)) # ""
       THEN <<UrlIn(Head(text))>> \o tco_links(Tail(text))
       ELSE tco_links(Tail(text))

\* where a shortened link redirects to
Location(l) ==
  CASE l = "http://t.co/a" -> "http://example.com/a"
    [] l = "http://t.co/b" -> "http://example.com/b"
    [] OTHER -> l

\* what requests.head(l) can do: answer with a redirect ("redirect"), answer
\* without a Location header ("plain"), or raise a RequestException ("error");
\* t.co/a is a shortened link, t.co/b is not
Outcomes(l) ==
  IF l = "http://t.co/a" THEN {"redirect", "error"} ELSE {"plain", "error"}

\* one outcome per matched link of a text
Resolutions(text) ==
  LET links == tco_links(text)
  IN {res \in [1..Len(links) -> {"redirect", "plain", "error"}] :
        \A i \in 1..Len(links) : res[i] \in Outcomes(links[i])}

extract_links(text, res) ==
  LET links == tco_links(text)
  IN [i \in 1..Len(links) |->
        CASE res[i] = "redirect" -> Location(links[i])
          [] res[i] = "plain" -> NoLocation
          [] OTHER -> links[i]]

\* the author followed by every mention of the text, wherever it stands
RECURSIVE leading_users_anywhere(_, _)
leading_users_anywhere(words, users) ==
  IF words = <<>> THEN users
  ELSE leading_users_anywhere(Tail(words),
                              IF IsMention(Head(words)) /\ Head(words) # EngineMention
                              THEN Append(users, Handle(Head(words)))
                              ELSE users)

\* the author followed by the consecutive mentions at the start of the text
RECURSIVE leading_users(_, _)
leading_users(words, users) ==
  IF words = <<>> THEN users
  ELSE IF IsMention(Head(words))
       THEN leading_users(Tail(words),
                          IF Head(words) # EngineMention
                          THEN Append(users, Handle(Head(words)))
                          ELSE users)
       ELSE users

\* x in list
InList(x, list) == \E i \in 1..Len(list) : list[i] = x

(* ---- the store ------------------------------------------------------- *)

\* self.tweets.get(doc_id=s), with its doc_id
Doc(tw, s) ==
  [doc_id |-> s,
   text |-> tw[s].text,
   user_full_name |-> tw[s].user_full_name,
   user_screen_name |-> tw[s].user_screen_name,
   parent_id |-> tw[s].parent_id,
   parsed |-> tw[s].parsed,
   thread_id |-> tw[s].thread_id]

\* the agreement documents of the threads table (doc 0 holds the counter)
IsAgreement(th, d) == d \in DOMAIN th /\ "status_id" \in DOMAIN th[d]

Agreements(th) == {d \in DOMAIN th : IsAgreement(th, d)}

SetMin(S) == CHOOSE m \in S : \A x \in S : m <= x

SetMax(S) == CHOOSE m \in S : \A x \in S : m >= x

\* the doc_id tinydb gives the next inserted document
next_id(th) == IF DOMAIN th = {} THEN 1 ELSE SetMax(DOMAIN th) + 1

\* add without the contains test: the insert replaces the stored document
add_overwrite(tw, status) ==
  [s \in DOMAIN tw \cup {status.id} |->
     IF s = status.id
     THEN [text |-> status.full_text,
           user_full_name |-> status.user.name,
           user_screen_name |-> status.user.screen_name,
           parent_id |-> status.in_reply_to_status_id,
           parsed |-> FALSE,
           thread_id |-> 0]
     ELSE tw[s]]

add(tw, status) ==
  IF status.id \in DOMAIN tw THEN tw
  ELSE [s \in DOMAIN tw \cup {status.id} |->
          IF s = status.id
          THEN [text |-> status.full_text,
                user_full_name |-> status.user.name,
                user_screen_name |-> status.user.screen_name,
                parent_id |-> status.in_reply_to_status_id,
                parsed |-> FALSE,
                thread_id |-> 0]
          ELSE tw[s]]

\* find_root that stops at the parent
find_root_one_hop(tw, status_id) ==
  IF status_id \in DOMAIN tw
  THEN IF tw[status_id].parent_id # None /\ tw[status_id].parent_id # 0
       THEN tw[status_id].parent_id
       ELSE status_id
  ELSE None

RECURSIVE find_root(_, _)
find_root(tw, status_id) ==
  IF status_id \in DOMAIN tw
  THEN IF tw[status_id].parent_id # None /\ tw[status_id].parent_id # 0
       THEN find_root(tw, tw[status_id].parent_id)
       ELSE status_id
  ELSE None

\* find_agreement that takes the newest agreement, whatever its root
find_agreement_newest(tw, th, status_id) ==
  IF Agreements(th) = {} THEN None ELSE SetMax(Agreements(th))

\* the doc_id of the first agreement whose status_id is the root, or None
find_agreement(tw, th, status_id) ==
  LET agreement_status_id == find_root(tw, status_id)
      found == {d \in Agreements(th) : th[d].status_id = agreement_status_id}
  IN IF found = {} THEN None ELSE SetMin(found)

\* __init__ that writes the counter document whether or not it is there
init_counter_always(th) ==
  [d \in DOMAIN th \cup {0} |-> IF d = 0 THEN [num_threads |-> 0] ELSE th[d]]

\* __init__: the counter document is inserted when the table has none
init_counter(th) ==
  IF 0 \in DOMAIN th THEN th
  ELSE [d \in DOMAIN th \cup {0} |-> IF d = 0 THEN [num_threads |-> 0] ELSE th[d]]

add_signature(doc, name, status_id) ==
  [doc EXCEPT !.signatures =
     [h \in DOMAIN doc.signatures \cup {name} |->
        IF h = name THEN status_id ELSE doc.signatures[h]]]

\* add_links that leaves a dead agreement alone
add_links_unless_dead(doc, links) ==
  IF doc.dead THEN doc ELSE [doc EXCEPT !.links = doc.links \o links]

add_links(doc, links) == [doc EXCEPT !.links = doc.links \o links]

(* ---- parse, one store write at a time --------------------------------- *)

\* the last "enforced by @<handle>" of the text instead of the first
RECURSIVE enforcer_of_last(_, _)
enforcer_of_last(text, author) ==
  IF Len(text) < 3 THEN author
  ELSE IF text[Len(text) - 2] = "enforced" /\ text[Len(text) - 1] = "by"
          /\ IsMention(text[Len(text)])
       THEN Handle(text[Len(text)])
       ELSE enforcer_of_last(SubSeq(text, 1, Len(text) - 1), author)

\* re.search of "enforced by @(\w+)": the handle of the first match, the
\* author when there is none
RECURSIVE enforcer_of(_, _)
enforcer_of(text, author) ==
  IF Len(text) < 3 THEN author
  ELSE IF text[1] = "enforced" /\ text[2] = "by" /\ IsMention(text[3])
       THEN Handle(text[3])
       ELSE enforcer_of(Tail(text), author)

\* creates without the is_root test
creates_any_post(status) == status.user_screen_name = Operator

\* is_root and (status["user_screen_name"] == "lukvmil")
creates(status) ==
  status.parent_id = None /\ status.user_screen_name = Operator

\* parse that never sets the parsed flag
mark_parsed_never(db, status) == db

mark_parsed(db, status) ==
  [db EXCEPT !.tweets[status.doc_id].parsed = TRUE]

set_thread_id(db, status) ==
  LET found_agreement == find_agreement(db.tweets, db.threads, status.doc_id)
      agreement_id == IF found_agreement # None THEN found_agreement ELSE 0
  IN [db EXCEPT !.tweets[status.doc_id].thread_id = agreement_id]

insert_agreement(db, status, res) ==
  IF creates(status)
  THEN LET thread_id == next_id(db.threads)
           doc == [author |-> status.user_full_name,
                   enforcer |-> enforcer_of(status.text, status.user_screen_name),
                   members |-> leading_users(status.text, <<status.user_screen_name>>),
                   text |-> status.text,
                   signatures |-> [h \in {} |-> 0],
                   dead |-> FALSE,
                   links |-> extract_links(status.text, res),
                   status_id |-> status.doc_id,
                   status_link |-> <<status.user_screen_name, status.doc_id>>]
       IN [db EXCEPT !.threads =
             [d \in DOMAIN db.threads \cup {thread_id} |->
                IF d = thread_id THEN doc ELSE db.threads[d]]]
  ELSE db

\* the thread_id the insert returned
inserted_id(db) == SetMax(DOMAIN db.threads)

\* parse without the second thread_id write
set_created_thread_id_skipped(db, status) == db

\* thread id has to be set after agreement created
set_created_thread_id(db, status) ==
  IF creates(status)
  THEN [db EXCEPT !.tweets[status.doc_id].thread_id = inserted_id(db)]
  ELSE db

set_num_threads(db, status) ==
  IF creates(status)
  THEN [db EXCEPT !.threads[0].num_threads = inserted_id(db)]
  ELSE db

\* sign without the membership test
sign_by_anyone(db, status) ==
  IF Contains(status.text, "+sign")
  THEN IF find_agreement(db.tweets, db.threads, status.doc_id) # None
       THEN [db EXCEPT !.threads[find_agreement(db.tweets, db.threads, status.doc_id)] =
               add_signature(@, status.user_screen_name, status.doc_id)]
       ELSE db
  ELSE db

sign(db, status) ==
  IF Contains(status.text, "+sign")
  THEN LET agreement == find_agreement(db.tweets, db.threads, status.doc_id)
       IN IF agreement # None
             /\ InList(status.user_screen_name, db.threads[agreement].members)
          THEN [db EXCEPT !.threads[agreement] =
                  add_signature(@, status.user_screen_name, status.doc_id)]
          ELSE db
  ELSE db

\* leave that knows +unsign only
leave_unsign_only(db, status) ==
  IF Contains(status.text, "+unsign")
  THEN IF find_agreement(db.tweets, db.threads, status.doc_id) # None
          /\ InList(status.user_screen_name,
                    db.threads[find_agreement(db.tweets, db.threads, status.doc_id)].members)
       THEN [db EXCEPT !.threads[find_agreement(db.tweets, db.threads, status.doc_id)].dead = TRUE]
       ELSE db
  ELSE db

leave(db, status) ==
  IF Contains(status.text, "+leave") \/ Contains(status.text, "+unsign")
  THEN LET agreement == find_agreement(db.tweets, db.threads, status.doc_id)
       IN IF agreement # None
             /\ InList(status.user_screen_name, db.threads[agreement].members)
          THEN [db EXCEPT !.threads[agreement].dead = TRUE]
          ELSE db
  ELSE db

\* attach_links that falls back to the newest agreement when none is found
attach_links_to_newest(db, status, res) ==
  IF extract_links(status.text, res) # <<>>
  THEN IF find_agreement(db.tweets, db.threads, status.doc_id) # None
       THEN [db EXCEPT !.threads[find_agreement(db.tweets, db.threads, status.doc_id)] =
               add_links(@, extract_links(status.text, res))]
       ELSE IF Agreements(db.threads) # {}
            THEN [db EXCEPT !.threads[SetMax(Agreements(db.threads))] =
                    add_links(@, extract_links(status.text, res))]
            ELSE db
  ELSE db

\* attach_links that leaves out the links the agreement already holds
attach_links_deduplicated(db, status, res) ==
  IF extract_links(status.text, res) # <<>>
  THEN IF find_agreement(db.tweets, db.threads, status.doc_id) # None
       THEN [db EXCEPT !.threads[find_agreement(db.tweets, db.threads, status.doc_id)] =
               add_links(@, SelectSeq(extract_links(status.text, res),
                                      LAMBDA l : ~InList(l, @.links)))]
       ELSE db
  ELSE db

attach_links(db, status, res) ==
  LET links == extract_links(status.text, res)
  IN IF links # <<>>
     THEN LET agreement == find_agreement(db.tweets, db.threads, status.doc_id)
          IN IF agreement # None
             THEN [db EXCEPT !.threads[agreement] = add_links(@, links)]
             ELSE db
     ELSE db

\* the store writes of one parse, in program order
ParseWrites == 8

\* parse that sets the parsed flag after its other writes instead of before
parse_upto_marks_last(db, status, res1, res2, k) ==
  LET d1 == IF k >= 1 THEN set_thread_id(db, status) ELSE db
      d2 == IF k >= 2 THEN insert_agreement(d1, status, res1) ELSE d1
      d3 == IF k >= 3 THEN set_created_thread_id(d2, status) ELSE d2
      d4 == IF k >= 4 THEN set_num_threads(d3, status) ELSE d3
      d5 == IF k >= 5 THEN sign(d4, status) ELSE d4
      d6 == IF k >= 6 THEN leave(d5, status) ELSE d5
      d7 == IF k >= 7 THEN attach_links(d6, status, res2) ELSE d6
      d8 == IF k >= 8 THEN mark_parsed(d7, status) ELSE d7
  IN d8

\* the store after the first k writes of parse(status); res1 and res2 are the
\* outcomes of the two extract_links calls
parse_upto(db, status, res1, res2, k) ==
  LET d1 == IF k >= 1 THEN mark_parsed(db, status) ELSE db
      d2 == IF k >= 2 THEN set_thread_id(d1, status) ELSE d1
      d3 == IF k >= 3 THEN insert_agreement(d2, status, res1) ELSE d2
      d4 == IF k >= 4 THEN set_created_thread_id(d3, status) ELSE d3
      d5 == IF k >= 5 THEN set_num_threads(d4, status) ELSE d4
      d6 == IF k >= 6 THEN sign(d5, status) ELSE d5
      d7 == IF k >= 7 THEN leave(d6, status) ELSE d6
      d8 == IF k >= 8 THEN attach_links(d7, status, res2) ELSE d7
  IN d8

\* parse without the test of the parsed flag
parse_unguarded(db, status, res1, res2) ==
  parse_upto(db, status, res1, res2, ParseWrites)

parse(db, status, res1, res2) ==
  IF status.parsed = TRUE THEN db
  ELSE parse_upto(db, status, res1, res2, ParseWrites)

\* the ids in descending order
RECURSIVE sorted_descending(_)
sorted_descending(ids) ==
  IF ids = {} THEN <<>>
  ELSE <<SetMax(ids)>> \o sorted_descending(ids \ {SetMax(ids)})

\* status_ids.sort()
RECURSIVE sorted(_)
sorted(ids) ==
  IF ids = {} THEN <<>>
  ELSE <<SetMin(ids)>> \o sorted(ids \ {SetMin(ids)})

\* the loop of parse_all over status_ids: the stores it can end with, one for
\* each way the link resolutions of the parsed statuses can go
RECURSIVE parse_loop(_, _)
\* a loop that gives up at the first status whose root is not found
loop_body_gives_up(db, status, rest) ==
  IF status.parsed = FALSE
  THEN IF find_root(db.tweets, status.doc_id) = None
       THEN {db}
       ELSE UNION { parse_loop(parsed, rest) :
                      parsed \in { parse(db, status, res1, res2) :
                                    res1 \in Resolutions(status.text),
                                    res2 \in Resolutions(status.text) } }
  ELSE parse_loop(db, rest)

loop_body(db, status, rest) ==
  IF status.parsed = FALSE
  THEN UNION { parse_loop(parsed, rest) :
                 parsed \in { parse(db, status, res1, res2) :
                               res1 \in Resolutions(status.text),
                               res2 \in Resolutions(status.text) } }
  ELSE parse_loop(db, rest)

parse_loop(db, status_ids) ==
  IF status_ids = <<>> THEN {db}
  ELSE loop_body(db, Doc(db.tweets, Head(status_ids)), Tail(status_ids))

parse_all(db) == parse_loop(db, sorted(DOMAIN db.tweets))

\* the stores a parse_all run can leave when the process is killed during it:
\* the statuses before the current one are done, the current one has made
\* its first k writes
RECURSIVE killed_loop(_, _)
killed_body(db, status, rest) ==
  IF status.parsed = FALSE
  THEN { parse_upto(db, status, res1, res2, k) :
           res1 \in Resolutions(status.text),
           res2 \in Resolutions(status.text),
           k \in 0..(ParseWrites - 1) }
       \cup UNION { killed_loop(parsed, rest) :
                      parsed \in { parse(db, status, res1, res2) :
                                    res1 \in Resolutions(status.text),
                                    res2 \in Resolutions(status.text) } }
  ELSE {db} \cup killed_loop(db, rest)

killed_loop(db, status_ids) ==
  IF status_ids = <<>> THEN {}
  ELSE killed_body(db, Doc(db.tweets, Head(status_ids)), Tail(status_ids))

killed_parse_all(db) == killed_loop(db, sorted(DOMAIN db.tweets))

(* ---- the environment -------------------------------------------------- *)

\* the post n replies up from status_id; None once the chain has ended
RECURSIVE Up(_, _, _)
Up(tw, status_id, n) ==
  IF n = 0 THEN status_id
  ELSE IF status_id \notin DOMAIN tw \/ tw[status_id].parent_id = None THEN None
       ELSE Up(tw, tw[status_id].parent_id, n - 1)

\* statuses reply to statuses that existed before them, so replies never form
\* a cycle: the chain above the replied-to status does not come back to the status
NoCycle(tw, status) ==
  \A n \in 0..Cardinality(DOMAIN tw) :
    Up(tw, status.in_reply_to_status_id, n) # status.id

(* ---- state machine ---------------------------------------------------- *)

\* the two tables
Store == [tweets |-> tweets, threads |-> threads]

Init ==
  /\ tweets = <<>>
  /\ threads = init_counter(<<>>)
  /\ last = "init"
  /\ interrupts = 0

\* Parser.add(status)
Add(status) ==
  /\ NoCycle(tweets, status)
  /\ tweets' = add(tweets, status)
  /\ last' = IF status.id \in DOMAIN tweets THEN "add: already in database" ELSE "add"
  /\ UNCHANGED <<threads, interrupts>>

\* Parser.parse(status, api) called on a stored status
Parse(s, res1, res2) ==
  /\ s \in DOMAIN tweets
  /\ LET db == parse(Store, Doc(tweets, s), res1, res2)
     IN /\ tweets' = db.tweets
        /\ threads' = db.threads
  /\ last' = IF tweets[s].parsed THEN "parse: already parsed" ELSE "parse"
  /\ UNCHANGED interrupts

\* Parser.parse_all(api)
ParseAll ==
  /\ \E db \in parse_all(Store) :
       /\ tweets' = db.tweets
       /\ threads' = db.threads
  /\ last' = "parse_all"
  /\ UNCHANGED interrupts

\* a parse_all run during which the process is killed; the bot is started
\* again and builds a new Parser on the stored tables
Interrupt ==
  /\ interrupts < MaxInterrupts
  /\ interrupts' = interrupts + 1
  /\ \E db \in killed_parse_all(Store) :
       /\ tweets' = db.tweets
       /\ threads' = init_counter(db.threads)
  /\ last' = "interrupt"

AddStep == \E status \in Statuses : Add(status)

ParseStep ==
  \E s \in DOMAIN tweets :
    \E res1 \in Resolutions(tweets[s].text), res2 \in Resolutions(tweets[s].text) :
      Parse(s, res1, res2)

\* add and parse_all, as the bot calls them
Next == AddStep \/ ParseAll

Spec == Init /\ [][Next]_vars

\* with parse also called on single statuses
NextDirect == AddStep \/ ParseAll \/ ParseStep

SpecDirect == Init /\ [][NextDirect]_vars

\* with parse_all runs that are killed
NextInterrupt == AddStep \/ ParseAll \/ Interrupt

SpecInterrupt == Init /\ [][NextInterrupt]_vars

(* ---- vocabulary of the properties -------------------------------------- *)

\* the parentless stored status at the top of the reply chain of s; None when
\* the chain leaves the store before it gets there
ChainRoot(tw, s) ==
  IF \E n \in 0..MaxId : Up(tw, s, n) \in DOMAIN tw /\ tw[Up(tw, s, n)].parent_id = None
  THEN Up(tw, s, CHOOSE n \in 0..MaxId :
                   Up(tw, s, n) \in DOMAIN tw /\ tw[Up(tw, s, n)].parent_id = None)
  ELSE None

\* the agreements rooted at the chain root of s
Governing(tw, th, s) ==
  {d \in Agreements(th) : th[d].status_id = ChainRoot(tw, s)}

\* the statuses this step has parsed
ParsedNow == {s \in DOMAIN tweets : ~tweets[s].parsed /\ tweets'[s].parsed}

\* the agreements this step has created
CreatedNow == Agreements(threads') \ Agreements(threads)

IsMember(th, d, handle) == \E i \in 1..Len(th[d].members) : th[d].members[i] = handle

HasMarker(tw, s, marker) == \E i \in 1..Len(tw[s].text) : tw[s].text[i] = marker

\* the signatures of agreement d, none before it exists
SignaturesOf(th, d) == IF d \in Agreements(th) THEN th[d].signatures ELSE [h \in {} |-> 0]

(* ---- C1 ---------------------------------------------------------------- *)

C2_OneAgreementPerRoot ==
  \A d1, d2 \in Agreements(threads) :
    threads[d1].status_id = threads[d2].status_id => d1 = d2

\* parse_all has run again after a run was killed between the insert of an
\* agreement and the write of its id to the creating status
C2_Witness ==
  /\ interrupts = 1
  /\ last = "parse_all"
  /\ \E s \in DOMAIN tweets, d \in Agreements(threads) :
       /\ threads[d].status_id = s
       /\ tweets[s].parsed
       /\ tweets[s].thread_id = 0

(* ---- C3 ---------------------------------------------------------------- *)

\* C3: parse of a status whose parsed flag is set leaves both tables as they
\* are, directly and through parse_all, and no step changes the document of a
\* parsed status, so the flag never goes back.
C3_ParseOnce ==
  [][ /\ last' = "parse: already parsed" => (tweets' = tweets /\ threads' = threads)
      /\ (last' = "parse_all" /\ \A s \in DOMAIN tweets : tweets[s].parsed)
           => (tweets' = tweets /\ threads' = threads)
      /\ \A s \in DOMAIN tweets : tweets[s].parsed => tweets'[s] = tweets[s] ]_vars

\* parse was called again on the only status, a parsed one that created an
\* agreement with a link
C3_Witness ==
  /\ last = "parse: already parsed"
  /\ \E s \in DOMAIN tweets :
       /\ DOMAIN tweets = {s}
       /\ tweets[s].parsed
       /\ \E d \in Agreements(threads) :
            threads[d].status_id = s /\ Len(threads[d].links) > 0

(* ---- C4 ---------------------------------------------------------------- *)

\* signatures with the entry of handle set to status_id
Signed(signatures, handle, status_id) ==
  [h \in DOMAIN signatures \cup {handle} |->
     IF h = handle THEN status_id ELSE signatures[h]]

\* C4: a parse of one status with +sign sets signatures[author] of the governing
\* agreement to the status id when the author is one of its members and leaves
\* every other signature entry alone; when the author is no member, or no
\* agreement governs the status, every signatures mapping stays as it was.
C4_SignByMemberOnly ==
  [][ \A s \in DOMAIN tweets :
        (ParsedNow = {s} /\ HasMarker(tweets, s, "+sign")) =>
          \A d \in Agreements(threads') :
            threads'[d].signatures =
              IF d \in Governing(tweets', threads', s)
                 /\ IsMember(threads', d, tweets[s].user_screen_name)
              THEN Signed(SignaturesOf(threads, d), tweets[s].user_screen_name, s)
              ELSE SignaturesOf(threads, d) ]_vars

\* under one agreement: a member has signed twice and the later status is the
\* entry, and a parsed +sign of a non-member has left no entry
C4_Witness ==
  \E d \in Agreements(threads), s1, s2, s3 \in DOMAIN tweets :
    /\ s1 < s2
    /\ \A s \in {s1, s2, s3} :
         tweets[s].parsed /\ HasMarker(tweets, s, "+sign") /\ d \in Governing(tweets, threads, s)
    /\ tweets[s1].user_screen_name = tweets[s2].user_screen_name
    /\ IsMember(threads, d, tweets[s1].user_screen_name)
    /\ threads[d].signatures[tweets[s1].user_screen_name] = s2
    /\ ~IsMember(threads, d, tweets[s3].user_screen_name)
    /\ tweets[s3].user_screen_name \notin DOMAIN threads[d].signatures

(* ---- C5 ---------------------------------------------------------------- *)

\* C5: a parse of one status with +leave or +unsign by a member of the governing
\* agreement sets its dead flag, and a dead flag that is set stays set in every
\* step.
C5_DeadIsAbsorbing ==
  [][ /\ \A s \in DOMAIN tweets :
           (/\ ParsedNow = {s}
            /\ HasMarker(tweets, s, "+leave") \/ HasMarker(tweets, s, "+unsign")) =>
             \A d \in Governing(tweets', threads', s) :
               IsMember(threads', d, tweets[s].user_screen_name) => threads'[d].dead
      /\ \A d \in Agreements(threads) : threads[d].dead => threads'[d].dead ]_vars

\* an agreement is dead after a member's +leave, and a member's +sign parsed
\* after it has been recorded without reviving it
C5_Witness ==
  \E d \in Agreements(threads), s1, s2 \in DOMAIN tweets :
    /\ s1 < s2
    /\ tweets[s1].parsed /\ tweets[s2].parsed
    /\ d \in Governing(tweets, threads, s1) /\ d \in Governing(tweets, threads, s2)
    /\ HasMarker(tweets, s1, "+leave")
    /\ IsMember(threads, d, tweets[s1].user_screen_name)
    /\ HasMarker(tweets, s2, "+sign")
    /\ tweets[s2].user_screen_name \in DOMAIN threads[d].signatures
    /\ threads[d].signatures[tweets[s2].user_screen_name] = s2
    /\ threads[d].dead

(* ---- C6 ---------------------------------------------------------------- *)

\* every reply has a larger id than the status it replies to
Monotonic(tw) ==
  \A s \in DOMAIN tw : tw[s].parent_id # None => tw[s].parent_id < s

\* status s has resolved to agreement d: its thread_id is d and its +sign,
\* +leave / +unsign and links have been applied to d
Resolved(tw, th, s, d) ==
  /\ tw[s].thread_id = d
  /\ (HasMarker(tw, s, "+sign") /\ IsMember(th, d, tw[s].user_screen_name))
       => tw[s].user_screen_name \in DOMAIN th[d].signatures
  /\ ((HasMarker(tw, s, "+leave") \/ HasMarker(tw, s, "+unsign"))
        /\ IsMember(th, d, tw[s].user_screen_name))
       => th[d].dead
  /\ \A i \in 1..Len(tco_links(tw[s].text)) :
       \E j \in 1..Len(th[d].links) :
         th[d].links[j] \in {tco_links(tw[s].text)[i], Location(tco_links(tw[s].text)[i]), NoLocation}

\* C6 as claimed: with ids growing along replies, in every state reached by add
\* and parse_all every parsed status whose chain root owns an agreement has
\* resolved to it.
C6_Original ==
  Monotonic(tweets) =>
    \A s \in DOMAIN tweets :
      tweets[s].parsed =>
        \A d \in Governing(tweets, threads, s) : Resolved(tweets, threads, s, d)

\* C6 amended: with ids growing along replies, every status that parse_all
\* parses while all of its ancestors are stored finds its chain root parsed and,
\* when the root owns an agreement, resolves to it; parse_all works in ascending
\* id order.
C6_Amended ==
  [][ \A s \in ParsedNow :
        (Monotonic(tweets) /\ ChainRoot(tweets, s) # None) =>
          /\ tweets'[ChainRoot(tweets, s)].parsed
          /\ \A d \in Governing(tweets', threads', s) : Resolved(tweets', threads', s, d) ]_vars

\* a reply to a reply to an operator root: parse_all has parsed all three and
\* both replies have resolved to the agreement of the root
C6_Witness ==
  /\ last = "parse_all"
  /\ Monotonic(tweets)
  /\ \E s1, s2, s3 \in DOMAIN tweets, d \in Agreements(threads) :
       /\ tweets[s3].parent_id = s2 /\ tweets[s2].parent_id = s1
       /\ threads[d].status_id = s1
       /\ tweets[s2].parsed /\ tweets[s3].parsed
       /\ tweets[s2].thread_id = d /\ tweets[s3].thread_id = d
       /\ HasMarker(tweets, s3, "+sign")
       /\ tweets[s3].user_screen_name \in DOMAIN threads[d].signatures

(* ---- C7 ---------------------------------------------------------------- *)

\* C7: the reply chain of every stored status ends within as many replies as
\* there are stored statuses, and when parse_all returns every status that was
\* stored when it started is parsed, whatever lookups, membership tests and link
\* resolutions failed on the way.
C7_BatchParsesEverything ==
  [][ /\ \A s \in DOMAIN tweets : Up(tweets, s, Cardinality(DOMAIN tweets) + 1) = None
      /\ last' = "parse_all" =>
           /\ DOMAIN tweets' = DOMAIN tweets
           /\ \A s \in DOMAIN tweets : tweets'[s].parsed ]_vars

\* parse_all has returned with everything parsed: a +sign whose parent is not
\* stored found no root, and the link of a later operator root did not resolve
C7_Witness ==
  /\ last = "parse_all"
  /\ \A s \in DOMAIN tweets : tweets[s].parsed
  /\ \E s1, s2 \in DOMAIN tweets, d \in Agreements(threads) :
       /\ s1 < s2
       /\ tweets[s1].parent_id # None /\ tweets[s1].parent_id \notin DOMAIN tweets
       /\ HasMarker(tweets, s1, "+sign")
       /\ tweets[s1].thread_id = 0
       /\ threads[d].status_id = s2
       /\ threads[d].links = <<"http://t.co/a", "http://t.co/a">>

(* ---- C8 ---------------------------------------------------------------- *)

\* C8: find_root of a stored parentless status is the status itself, find_root
\* of a status n replies below a stored parentless status is that status, and
\* find_root of an id that is not stored is None, which is no status id.
C8_FindRoot ==
  /\ \A p \in DOMAIN tweets :
       tweets[p].parent_id = None => find_root(tweets, p) = p
  /\ \A p \in DOMAIN tweets : \A n \in 0..MaxId :
       (Up(tweets, p, n) \in DOMAIN tweets /\ tweets[Up(tweets, p, n)].parent_id = None)
         => find_root(tweets, p) = Up(tweets, p, n)
  /\ \A p \in (1..(MaxId + 1)) \ DOMAIN tweets : find_root(tweets, p) = None
  /\ None \notin 1..(MaxId + 1)

\* a chain of two replies is stored and its lowest status finds the root; an
\* id that is not stored finds None
C8_Witness ==
  \E s1, s2, s3 \in DOMAIN tweets :
    /\ tweets[s3].parent_id = s2 /\ tweets[s2].parent_id = s1 /\ tweets[s1].parent_id = None
    /\ Up(tweets, s3, 2) = s1
    /\ find_root(tweets, s3) = s1
    /\ find_root(tweets, MaxId + 1) = None

(* ---- C9 ---------------------------------------------------------------- *)

\* C9: a parse of one status with links whose chain root has no agreement
\* changes no document of the threads table; the links of an agreement change
\* only in a step that parses a status with links it governs; no step changes
\* the text of a stored status.
C9_LinksNeedAnAgreement ==
  [][ /\ \A s \in DOMAIN tweets :
           (/\ ParsedNow = {s}
            /\ tco_links(tweets[s].text) # <<>>
            /\ Governing(tweets', threads', s) = {}) => threads' = threads
      /\ \A d \in Agreements(threads) :
           threads'[d].links # threads[d].links =>
             \E s \in ParsedNow : tco_links(tweets[s].text) # <<>>
                                   /\ ChainRoot(tweets, s) = threads[d].status_id
      /\ \A s \in DOMAIN tweets : tweets'[s].text = tweets[s].text ]_vars

\* a status with a link has been parsed under a root without agreement while
\* an agreement of another chain exists, and its link is in no agreement
C9_Witness ==
  \E s \in DOMAIN tweets :
    /\ tweets[s].parsed
    /\ tweets[s].text = <<"+sign", "http://t.co/b">>
    /\ ChainRoot(tweets, s) # None
    /\ Governing(tweets, threads, s) = {}
    /\ Agreements(threads) # {}
    /\ \A d \in Agreements(threads) : \A j \in 1..Len(threads[d].links) :
         threads[d].links[j] \notin {"http://t.co/b", "http://example.com/b", NoLocation}

(* ---- C10 --------------------------------------------------------------- *)

\* C10: add of a status whose id is stored changes neither table.
C10_AddTwiceIsNoOp ==
  [][ last' = "add: already in database" =>
        (tweets' = tweets /\ threads' = threads) ]_vars

\* add was called again for the only stored status, which is parsed and has
\* its agreement
C10_Witness ==
  /\ last = "add: already in database"
  /\ \E s \in DOMAIN tweets :
       /\ DOMAIN tweets = {s}
       /\ tweets[s].parsed
       /\ tweets[s].thread_id # 0

(* ---- C11 --------------------------------------------------------------- *)

\* threads record 0's num_threads
Counter(th) == th[0].num_threads

\* the id of the agreement created last, 0 before the first
Newest(th) == IF Agreements(th) = {} THEN 0 ELSE SetMax(Agreements(th))

\* C11 as claimed: in every state the counter is the id of the agreement
\* created last and the number of agreements created so far.
C11_Original ==
  /\ 0 \in DOMAIN threads
  /\ Counter(threads) = Newest(threads)
  /\ Counter(threads) = Cardinality(Agreements(threads))

\* C11 amended: the counter document is never written anew and the counter
\* never decreases; the agreements are numbered 1, 2, ... in the order of their
\* creation, each new one one above the newest; the counter never exceeds the
\* newest id and every call that returns after creating an agreement leaves it
\* equal to the newest id, which is the number of agreements.  A parse killed
\* between the insert and the counter write leaves the counter behind.
C11_Amended ==
  [][ /\ 0 \in DOMAIN threads /\ 0 \in DOMAIN threads'
      /\ Counter(threads') >= Counter(threads)
      /\ Agreements(threads') = 1..Cardinality(Agreements(threads'))
      /\ CreatedNow = (Newest(threads) + 1)..Newest(threads')
      /\ Counter(threads') <= Newest(threads')
      /\ (last' # "interrupt" /\ CreatedNow # {}) =>
           Counter(threads') = Newest(threads') ]_vars

\* a parse was killed after it had inserted agreement 1 and before it wrote
\* the counter; a later parse_all has created agreement 2 and set the counter to 2
C11_Witness ==
  /\ interrupts = 1
  /\ last = "parse_all"
  /\ Agreements(threads) = {1, 2}
  /\ Counter(threads) = 2
  /\ tweets[threads[1].status_id].thread_id = 0
  /\ tweets[threads[2].status_id].thread_id = 2

(* ---- C12 --------------------------------------------------------------- *)

\* the positions where "enforced by @<handle>" starts in a text
EnforcedAt(text) ==
  {i \in 1..(Len(text) - 2) :
     text[i] = "enforced" /\ text[i + 1] = "by" /\ IsMention(text[i + 2])}

\* C12: a new agreement has as enforcer the handle of the first "enforced by
\* @<handle>" of the creating text, or the screen name of the creating author
\* when the text has none.  Right after the insert, before the counter is
\* written, it is not dead and has no signatures; when the step that created it
\* ends, it is dead or signed only by commands of statuses parsed in that step.
C12_EnforcerAtCreation ==
  [][ \A d \in CreatedNow :
        /\ threads'[d].enforcer =
             IF EnforcedAt(tweets[threads'[d].status_id].text) = {}
             THEN tweets[threads'[d].status_id].user_screen_name
             ELSE Handle(tweets[threads'[d].status_id].text[
                           SetMin(EnforcedAt(tweets[threads'[d].status_id].text)) + 2])
        /\ Counter(threads') < d =>
             (~threads'[d].dead /\ DOMAIN threads'[d].signatures = {})
        /\ threads'[d].dead =>
             \E s \in ParsedNow :
               HasMarker(tweets, s, "+leave") \/ HasMarker(tweets, s, "+unsign")
        /\ \A h \in DOMAIN threads'[d].signatures :
             /\ threads'[d].signatures[h] \in ParsedNow
             /\ HasMarker(tweets, threads'[d].signatures[h], "+sign") ]_vars

\* one agreement has its author as enforcer; another, whose text names bob
\* first and eve second and carries +unsign and +sign, was inserted by a parse
\* killed right after the insert: bob enforces it, it is not dead and unsigned
C12_Witness ==
  /\ last = "interrupt"
  /\ \E d1, d2 \in Agreements(threads) :
       /\ EnforcedAt(threads[d1].text) = {}
       /\ threads[d1].enforcer = "lukvmil"
       /\ Cardinality(EnforcedAt(threads[d2].text)) = 2
       /\ threads[d2].enforcer = "bob"
       /\ HasMarker(tweets, threads[d2].status_id, "+sign")
       /\ HasMarker(tweets, threads[d2].status_id, "+unsign")
       /\ Counter(threads) < d2
       /\ ~threads[d2].dead
       /\ DOMAIN threads[d2].signatures = {}

(* ---- C13 --------------------------------------------------------------- *)

\* how many urls the texts of the statuses in S match
RECURSIVE SumLinks(_, _)
SumLinks(tw, S) ==
  IF S = {} THEN 0
  ELSE Len(tco_links(tw[SetMin(S)].text)) + SumLinks(tw, S \ {SetMin(S)})

\* the link entries agreement d can hold when every parsed status under its
\* root has attached its links once and the creating text was stored once
LinkBudget(tw, th, d) ==
  SumLinks(tw, {s \in DOMAIN tw : tw[s].parsed /\ ChainRoot(tw, s) = th[d].status_id})
    + Len(tco_links(th[d].text))

\* C13: a status whose parsed flag is set, also by a parse that was killed
\* right after setting it, is skipped by every later run: no step changes its
\* document, and a step writes the threads table only when some status is
\* unparsed; it then creates no agreement for a parsed status, records no
\* parsed status as a new signature, and changes an agreement's dead flag or
\* links only for a status under its root that it has just marked parsed.
\* After every such step each effect belongs to a parsed status and was
\* applied once: the creating status of every agreement is parsed and no
\* agreement holds more link entries than its parsed statuses account for.
C13_AtMostOnce ==
  [][ /\ tweets' # tweets =>
           \A s \in DOMAIN tweets : tweets[s].parsed => tweets'[s] = tweets[s]
      /\ threads' # threads =>
           /\ \E s \in DOMAIN tweets : ~tweets[s].parsed
           /\ \A s \in DOMAIN tweets :
                tweets[s].parsed =>
                  /\ \A d \in CreatedNow : threads'[d].status_id # s
                  /\ \A d \in Agreements(threads') :
                       \A h \in DOMAIN threads'[d].signatures :
                         threads'[d].signatures[h] = s =>
                           /\ h \in DOMAIN SignaturesOf(threads, d)
                           /\ threads[d].signatures[h] = s
           /\ \A d \in Agreements(threads) :
                (threads'[d].dead # threads[d].dead \/ threads'[d].links # threads[d].links) =>
                  \E s \in DOMAIN tweets :
                    ~tweets[s].parsed /\ tweets'[s].parsed
                      /\ ChainRoot(tweets, s) = threads[d].status_id
           /\ \A d \in Agreements(threads') :
                /\ tweets'[threads'[d].status_id].parsed
                /\ Len(threads'[d].links) <= LinkBudget(tweets', threads', d) ]_vars

\* a parse_all run was killed right after it had set the parsed flag of an
\* operator root with a link; parse_all has run again and the root still has
\* no agreement, while a reply with a link below it is parsed too
C13_Witness ==
  /\ interrupts = 1
  /\ last = "parse_all"
  /\ \E s1, s2 \in DOMAIN tweets :
       /\ tweets[s1].parent_id = None /\ tweets[s1].user_screen_name = "lukvmil"
       /\ tco_links(tweets[s1].text) # <<>>
       /\ tweets[s1].parsed
       /\ \A d \in Agreements(threads) : threads[d].status_id # s1
       /\ tweets[s2].parent_id = s1
       /\ tco_links(tweets[s2].text) # <<>>
       /\ tweets[s2].parsed /\ tweets[s2].thread_id = 0

(* ---- C14 --------------------------------------------------------------- *)

\* C14: a parse_all step that parses one status leaves its thread_id the id of
\* the agreement rooted at its chain root, the agreement the status has just
\* created included, and 0 when there is none.  After every step, an unparsed
\* status has thread_id 0 and every other thread_id is 0 or the id of an
\* agreement rooted at the chain root of the status; a thread_id that is not 0
\* never changes.
C14_ThreadId ==
  [][ /\ \A s \in DOMAIN tweets :
           (last' = "parse_all" /\ ParsedNow = {s}) =>
             /\ Governing(tweets', threads', s) = {} => tweets'[s].thread_id = 0
             /\ \A d \in Governing(tweets', threads', s) : tweets'[s].thread_id = d
             /\ \A d \in CreatedNow : tweets'[s].thread_id = d
      /\ tweets' # tweets =>
           \A s \in DOMAIN tweets' :
             /\ ~tweets'[s].parsed => tweets'[s].thread_id = 0
             /\ tweets'[s].thread_id # 0 =>
                  tweets'[s].thread_id \in Governing(tweets', threads', s)
      /\ \A s \in DOMAIN tweets :
           tweets[s].thread_id # 0 => tweets'[s].thread_id = tweets[s].thread_id ]_vars

\* parse_all has parsed an operator root, which carries the id of the
\* agreement it created, a reply below it, which carries the same id, and a
\* root of another author, which carries 0
C14_Witness ==
  /\ last = "parse_all"
  /\ \E s1, s2, s3 \in DOMAIN tweets, d \in Agreements(threads) :
       /\ tweets[s1].parsed /\ tweets[s2].parsed /\ tweets[s3].parsed
       /\ threads[d].status_id = s1
       /\ tweets[s1].thread_id = d
       /\ tweets[s2].parent_id = s1
       /\ tweets[s2].thread_id = d
       /\ tweets[s3].parent_id = None
       /\ tweets[s3].user_screen_name # "lukvmil"
       /\ tweets[s3].thread_id = 0

(* ---- C15 --------------------------------------------------------------- *)

\* the urls of the model: the matched ones and where they redirect to
IsUrl(x) ==
  x \in {"http://t.co/a", "http://t.co/b", "http://example.com/a", "http://example.com/b"}

\* C15: for every stored text and every way its requests can go, extract_links
\* returns one entry per matched url, in match order: the redirect target when
\* the request was answered with one and the matched url itself otherwise, so
\* every entry is a url; and every link entry stored in an agreement is a url.
C15_EveryEntryIsAUrl ==
  /\ \A s \in DOMAIN tweets : \A res \in Resolutions(tweets[s].text) :
       /\ Len(extract_links(tweets[s].text, res)) = Len(tco_links(tweets[s].text))
       /\ \A i \in 1..Len(tco_links(tweets[s].text)) :
            /\ IsUrl(extract_links(tweets[s].text, res)[i])
            /\ extract_links(tweets[s].text, res)[i] =
                 IF res[i] = "redirect"
                 THEN Location(tco_links(tweets[s].text)[i])
                 ELSE tco_links(tweets[s].text)[i]
  /\ \A d \in Agreements(threads) : \A j \in 1..Len(threads[d].links) :
       IsUrl(threads[d].links[j])

(* ---- C16 --------------------------------------------------------------- *)

\* what a request for url l can leave in a list of links
EntriesFor(l) == {l, Location(l), NoLocation}

\* C16 as claimed: a parse that creates an agreement from a text with k >= 1
\* links leaves it with 2k entries, the k entries stored at creation followed
\* by the same k entries.
C16_Original ==
  [][ \A s \in DOMAIN tweets : \A d \in CreatedNow :
        (last' # "interrupt" /\ ParsedNow = {s} /\ tco_links(tweets[s].text) # <<>>) =>
          /\ Len(threads'[d].links) = 2 * Len(tco_links(tweets[s].text))
          /\ \A j \in 1..Len(tco_links(tweets[s].text)) :
               threads'[d].links[Len(tco_links(tweets[s].text)) + j] = threads'[d].links[j] ]_vars

\* C16 amended: a parse that creates an agreement from a text with k >= 1
\* links leaves it with 2k entries: entry j and entry k + j are both what a
\* request for the j-th matched url has left, each from a request of its own,
\* and nothing is left out because it is there already.
C16_Amended ==
  [][ \A s \in DOMAIN tweets : \A d \in CreatedNow :
        (last' # "interrupt" /\ ParsedNow = {s} /\ tco_links(tweets[s].text) # <<>>) =>
          /\ Len(threads'[d].links) = 2 * Len(tco_links(tweets[s].text))
          /\ \A j \in 1..Len(tco_links(tweets[s].text)) :
               /\ threads'[d].links[j] \in EntriesFor(tco_links(tweets[s].text)[j])
               /\ threads'[d].links[Len(tco_links(tweets[s].text)) + j]
                    \in EntriesFor(tco_links(tweets[s].text)[j]) ]_vars

\* a parse has created an agreement from the only status, whose text has one
\* link; both requests were redirected and the agreement holds the target twice
C16_Witness ==
  /\ last = "parse"
  /\ \E s \in DOMAIN tweets, d \in Agreements(threads) :
       /\ DOMAIN tweets = {s}
       /\ threads[d].status_id = s
       /\ Len(tco_links(tweets[s].text)) = 1
       /\ threads[d].links = <<"http://example.com/a", "http://example.com/a">>

(* ---- C17 --------------------------------------------------------------- *)

\* C17: a parse of one status under an agreement that is dead already sets
\* signatures[author] to the status when it carries +sign and its author is a
\* member, and appends one entry for each url its text matches to the links,
\* as for an agreement that is not dead; the agreement stays dead.
C17_DeadNotGated ==
  [][ \A s \in DOMAIN tweets :
        ParsedNow = {s} =>
          \A d \in Governing(tweets, threads, s) :
            threads[d].dead =>
              /\ threads'[d].dead
              /\ (HasMarker(tweets, s, "+sign") /\ IsMember(threads, d, tweets[s].user_screen_name))
                   => threads'[d].signatures =
                        Signed(threads[d].signatures, tweets[s].user_screen_name, s)
              /\ Len(threads'[d].links) = Len(threads[d].links) + Len(tco_links(tweets[s].text))
              /\ SubSeq(threads'[d].links, 1, Len(threads[d].links)) = threads[d].links
              /\ \A j \in 1..Len(tco_links(tweets[s].text)) :
                   threads'[d].links[Len(threads[d].links) + j]
                     \in EntriesFor(tco_links(tweets[s].text)[j]) ]_vars

\* an agreement with member eve was dead from its creating status on; a later
\* reply of eve with +sign and a link is her signature, and its link is the
\* only entry of the agreement's links
C17_Witness ==
  \E d \in Agreements(threads), s \in DOMAIN tweets :
    /\ threads[d].dead
    /\ HasMarker(tweets, threads[d].status_id, "+unsign")
    /\ threads[d].status_id < s
    /\ tweets[s].parent_id = threads[d].status_id
    /\ tweets[s].parsed
    /\ tweets[s].user_screen_name = "eve"
    /\ "eve" \in DOMAIN threads[d].signatures
    /\ threads[d].signatures["eve"] = s
    /\ Len(threads[d].links) = 1
    /\ threads[d].links[1] \in EntriesFor("http://t.co/b")

(* ---- C18 --------------------------------------------------------------- *)

\* how many tokens at the start of a text begin with '@'
LeadLen(text) ==
  CHOOSE n \in 0..Len(text) :
    /\ \A i \in 1..n : IsMention(text[i])
    /\ n = Len(text) \/ ~IsMention(text[n + 1])

\* those tokens without the engine's own mention
LeadMentions(text) ==
  SelectSeq(SubSeq(text, 1, LeadLen(text)), LAMBDA w : w # EngineMention)

\* C18: a new agreement has as members the screen name of the creating author
\* followed by the handles of the '@' tokens that start the creating text up to
\* its first other token, the engine's own mention left out; no step changes
\* the members, text, enforcer, author or status_id of an agreement.
C18_MembersFixed ==
  [][ /\ \A d \in CreatedNow :
           threads'[d].members =
             <<tweets[threads'[d].status_id].user_screen_name>>
               \o [i \in 1..Len(LeadMentions(tweets[threads'[d].status_id].text)) |->
                     Handle(LeadMentions(tweets[threads'[d].status_id].text)[i])]
      /\ \A d \in Agreements(threads) :
           /\ d \in Agreements(threads')
           /\ threads'[d].members = threads[d].members
           /\ threads'[d].text = threads[d].text
           /\ threads'[d].enforcer = threads[d].enforcer
           /\ threads'[d].author = threads[d].author
           /\ threads'[d].status_id = threads[d].status_id ]_vars

\* one agreement has the members lukvmil and bob, from a text that starts
\* with @bob and the engine's mention, and bob has signed it since; another
\* has lukvmil and eve, from a text that names bob after its first other token
C18_Witness ==
  \E d1, d2 \in Agreements(threads) :
    /\ threads[d1].text[2] = EngineMention
    /\ threads[d1].members = <<"lukvmil", "bob">>
    /\ "bob" \in DOMAIN threads[d1].signatures
    /\ threads[d2].text[4] = "@bob"
    /\ threads[d2].members = <<"lukvmil", "eve">>

(* ---- C19 --------------------------------------------------------------- *)

\* C19: in every state, every key of an agreement's signatures is one of its
\* members and its value is a stored, parsed status written by that handle
\* whose text carries +sign and whose chain root is the agreement's status_id.
C19_SignaturesAreSound ==
  \A d \in Agreements(threads) : \A h \in DOMAIN threads[d].signatures :
    /\ IsMember(threads, d, h)
    /\ threads[d].signatures[h] \in DOMAIN tweets
    /\ tweets[threads[d].signatures[h]].parsed
    /\ tweets[threads[d].signatures[h]].user_screen_name = h
    /\ HasMarker(tweets, threads[d].signatures[h], "+sign")
    /\ ChainRoot(tweets, threads[d].signatures[h]) = threads[d].status_id

\* an agreement is signed by both of its members, each by a reply of their
\* own below its root
C19_Witness ==
  \E d \in Agreements(threads) :
    /\ DOMAIN threads[d].signatures = {"lukvmil", "bob"}
    /\ tweets[threads[d].signatures["lukvmil"]].parent_id # None
    /\ tweets[threads[d].signatures["bob"]].parent_id # None
    /\ threads[d].members = <<"lukvmil", "bob">>

====
